---- MODULE Spec2Model ----
(***************************************************************************)
(* Niche Trend Radar: the trend_points store written by ingest.py and the  *)
(* momentum / fusion / alert pipeline of app.py.                           *)
(*                                                                         *)
(* float64 quantities are modelled as fixed-point integers in thousandths  *)
(* (SCALE = 1000); NaN ("undefined") is the model value NaN.               *)
(***************************************************************************)
EXTENDS Integers, Sequences, FiniteSets, TLC

VARIABLES
    trend_points,   \* table trend_points: a set of rows
    applied,        \* history: identity key -> values of the upserts applied to it, in order
    pending,        \* writer -> rows of its running executemany still to apply
    calls,          \* number of upsert_points calls started so far
    pc,             \* position of the dashboard script (app.py, module level)
    query,          \* sidebar inputs: niches, start, end, geo, timeframe
    run_alerts,     \* st.button("Run alert check")
    gt,             \* app.py: gt       (google_trends / interest rows)
    metrics,        \* app.py: metrics  (rows of every other source)
    resampled,      \* compute_momentum: niche -> daily series after asfreq/ffill
    momentum,       \* app.py: momentum (sequence of records; <<>> = empty frame)
    piv,            \* fuse_scores: piv before normalisation (niche -> metric -> sum)
    fused,          \* app.py: fused    (sequence of records; <<>> = empty frame)
    slack,          \* sequence of send_slack calls of this run
    error,          \* exception that ended the script, or "none"
    fpc,            \* position of fetch_google_trends (ingest.py)
    group,          \* fetch_google_trends: number of the chunk being fetched
    attempts,       \* fetch_google_trends: attempts
    rows_gt,        \* fetch_google_trends: rows, the rows collected so far
    waits,          \* history: the time.sleep arguments of the current chunk
    resp,           \* history: outcome of the last request
    exits,          \* history: how the loop of each finished chunk was left
    collect_runs    \* table collect_runs: the audit records, in order

vars == <<trend_points, applied, pending, calls, pc, query, run_alerts, gt,
          metrics, resampled, momentum, piv, fused, slack, error,
          fpc, group, attempts, rows_gt, waits, resp, exits, collect_runs>>

fetchVars == <<fpc, group, attempts, rows_gt, waits, resp, exits, collect_runs>>

storeVars == <<trend_points, applied, pending, calls, fetchVars>>
runVars   == <<pc, query, run_alerts, gt, metrics, resampled, momentum, piv,
               fused, slack, error>>

\* np.nan: a value outside the range of every modelled float
NaN == -999999999

----------------------------------------------------------------------------
(* Bounds                                                                  *)

MaxBatch == 2       \* longest rows list handed to one upsert_points call
MaxCalls == 2       \* upsert_points calls per behaviour
MaxValue == 2       \* values written by the store writers are 1..MaxValue

Writers == {"w1", "w2"}

----------------------------------------------------------------------------
(* The store: ingest.py                                                    *)

\* Identity key of a row: PRIMARY KEY (source,niche,date,metric,geo,timeframe)
KeyOf(r) == <<r.source, r.niche, r.date, r.metric, r.geo, r.timeframe>>

Row(src, n, d, m, v, g, tf) ==
    [source |-> src, niche |-> n, date |-> d, metric |-> m, value |-> v,
     geo |-> g, timeframe |-> tf]

\* Rows the writers of the store specification may send.
WriterRows ==
    { Row("youtube", n, d, "views_7d", v, "", "last_7d") :
        n \in {"A"}, d \in {0}, v \in 1..MaxValue }
    \cup
    { Row("google_trends", "A", d, "interest", v, "", "now 7-d") :
        d \in {0}, v \in 1..MaxValue }

WriterKeys == { KeyOf(r) : r \in WriterRows }

RECURSIVE SeqsUpTo(_, _)
SeqsUpTo(S, n) ==
    IF n = 0 THEN { <<>> }
    ELSE LET shorter == SeqsUpTo(S, n - 1)
         IN  shorter \cup { Append(s, x) : s \in { t \in shorter : Len(t) = n - 1 }, x \in S }

\* (variant: ON CONFLICT DO NOTHING, the stored row is kept)
UpsertRowMutKeep(table, r) ==
    IF \E t \in table : KeyOf(t) = KeyOf(r) THEN table ELSE table \cup {r}

\* INSERT ... ON CONFLICT (key) DO UPDATE SET value = EXCLUDED.value
UpsertRow(table, r) ==
    { t \in table : KeyOf(t) # KeyOf(r) } \cup {r}

\* upsert_points(rows): "if not rows: return", else executemany over a fresh
\* autocommit connection: one statement per row, in list order.
UpsertCall(w, rows) ==
    /\ pending[w] = <<>>
    /\ calls < MaxCalls
    /\ calls' = calls + 1
    /\ pending' = [pending EXCEPT ![w] = rows]
    /\ UNCHANGED <<trend_points, applied>>
    /\ UNCHANGED runVars
    /\ UNCHANGED fetchVars

UpsertStep(w) ==
    /\ pending[w] # <<>>
    /\ LET r == Head(pending[w])
       IN  /\ trend_points' = UpsertRow(trend_points, r)
           /\ applied' = [applied EXCEPT ![KeyOf(r)] = Append(@, r.value)]
    /\ pending' = [pending EXCEPT ![w] = Tail(pending[w])]
    /\ UNCHANGED calls
    /\ UNCHANGED runVars
    /\ UNCHANGED fetchVars

IdleRun ==
    /\ pc = "idle"
    /\ query = [niches |-> {}, start |-> 0, end |-> 0, geo |-> "", timeframe |-> ""]
    /\ run_alerts = FALSE
    /\ gt = {} /\ metrics = {}
    /\ resampled = <<>> /\ momentum = <<>> /\ piv = <<>> /\ fused = <<>>
    /\ slack = <<>> /\ error = "none"

\* fetch_google_trends is not running
FetchIdle ==
    /\ fpc = "idle"
    /\ group = 0 /\ attempts = 0
    /\ rows_gt = <<>> /\ waits = <<>> /\ resp = "none" /\ exits = <<>>
    /\ collect_runs = <<>>

InitStore ==
    /\ trend_points = {}
    /\ applied = [k \in WriterKeys |-> <<>>]
    /\ pending = [w \in Writers |-> <<>>]
    /\ calls = 0
    /\ IdleRun
    /\ FetchIdle

NextStore ==
    \/ \E w \in Writers : \E rows \in SeqsUpTo(WriterRows, MaxBatch) : UpsertCall(w, rows)
    \/ \E w \in Writers : UpsertStep(w)

SpecStore == InitStore /\ [][NextStore]_vars

\* C1: the store holds at most one row per identity key, and that row's value
\* is the value of the most recently applied upsert for that key (a key never
\* upserted has no row).
C1_OneRowLastWriteWins ==
    \A k \in WriterKeys :
        LET rs == { t \in trend_points : KeyOf(t) = k }
        IN  /\ Cardinality(rs) <= 1
            /\ (applied[k] = <<>>) <=> (rs = {})
            /\ \A t \in rs : t.value = applied[k][Len(applied[k])]

\* C1 witness: both writers have applied rows, and some key was upserted at
\* least twice with different values and holds a single row.
C1_Witness ==
    /\ \E k \in WriterKeys :
          /\ Len(applied[k]) >= 2
          /\ applied[k][1] # applied[k][Len(applied[k])]
          /\ Cardinality({ t \in trend_points : KeyOf(t) = k }) = 1
    /\ \A w \in Writers : pending[w] # <<>>

----------------------------------------------------------------------------
(* Fixed-point arithmetic standing for float64                             *)

SCALE == 1000

Abs(a) == IF a < 0 THEN -a ELSE a

\* a / b on floats: quotient truncated to the fixed-point grid (b > 0)
Div(a, b) == IF a >= 0 THEN a \div b ELSE -((-a) \div b)

IsNaN(x) == x = NaN

RECURSIVE SqrtSearch(_, _, _)
SqrtSearch(x, lo, hi) ==
    IF lo >= hi THEN lo
    ELSE LET mid == (lo + hi + 1) \div 2
         IN  IF mid * mid <= x THEN SqrtSearch(x, mid, hi)
                               ELSE SqrtSearch(x, lo, mid - 1)

\* largest r with r*r <= x
ISqrt(x) == SqrtSearch(x, 0, 46340)

\* np.tanh on thousandths, by the Pade approximant x(27+x^2)/(27+9x^2) on
\* |x| < 3 and +-1 beyond (odd, monotone, within 0.02 of tanh)
Tanh(x) ==
    IF x >= 3 * SCALE THEN SCALE
    ELSE IF x <= -3 * SCALE THEN -SCALE
    ELSE LET a == Div(x, 10)
         IN  Div(10 * a * (270000 + a * a), 270000 + 9 * a * a)

\* sum of a sequence of numbers (by halves, to keep the evaluation shallow)
RECURSIVE SumSeq(_)
SumSeq(s) ==
    IF Len(s) = 0 THEN 0
    ELSE IF Len(s) = 1 THEN s[1]
    ELSE LET h == Len(s) \div 2
         IN  SumSeq(SubSeq(s, 1, h)) + SumSeq(SubSeq(s, h + 1, Len(s)))

\* s[-k:]
LastK(s, k) ==
    IF Len(s) <= k THEN s ELSE SubSeq(s, Len(s) - k + 1, Len(s))

\* np.nanmean of raw values, in thousandths
Mean(s) == Div(SumSeq(s) * SCALE, Len(s))

\* np.nanstd (population standard deviation), in thousandths:
\* sqrt(n*sum(x^2) - sum(x)^2) / n
Std(s) ==
    LET n == Len(s)
        q == SumSeq([i \in 1..n |-> s[i] * s[i]])
        t == SumSeq(s)
    IN  Div(ISqrt((n * q - t * t) * 10000) * 10, n)

\* np.polyfit(np.arange(7), y, 1)[0]: least-squares slope over x = 0..6,
\* sum((x - 3) * y) / 28, in thousandths
Slope7(y) == Div(SumSeq([i \in 1..7 |-> (i - 4) * y[i]]) * SCALE, 28)

----------------------------------------------------------------------------
(* compute_momentum: app.py                                                *)

\* Order of the niche labels (string order used by groupby and by join)
NicheOrder == <<"A", "B", "C">>

Niches == { NicheOrder[i] : i \in 1..Len(NicheOrder) }

Rank(n) == CHOOSE i \in 1..Len(NicheOrder) : NicheOrder[i] = n

\* The members of a set of niches as a sequence in label order
RECURSIVE SortedNiches(_)
SortedNiches(S) ==
    IF S = {} THEN <<>>
    ELSE LET n == CHOOSE x \in S : \A y \in S : Rank(x) <= Rank(y)
         IN  <<n>> \o SortedNiches(S \ {n})

\* (date, value) observations of one niche in a frame of rows
Obs(rows, n) == { <<r.date, r.value>> : r \in { x \in rows : x.niche = n } }

MinDate(obs) == CHOOSE d \in { o[1] : o \in obs } : \A o \in obs : d <= o[1]
MaxDate(obs) == CHOOSE d \in { o[1] : o \in obs } : \A o \in obs : d >= o[1]

\* .asfreq("D"): one entry per calendar day from the first to the last date,
\* NaN on the days without a row
AsFreq(obs) ==
    [i \in 1..(MaxDate(obs) - MinDate(obs) + 1) |->
        LET d == MinDate(obs) + i - 1
        IN  IF \E o \in obs : o[1] = d
            THEN (CHOOSE o \in obs : o[1] = d)[2]
            ELSE NaN]

\* .fillna(method="ffill"): scanning forward, a NaN entry takes the last entry
\* seen before it (carry); evaluated by halves
RECURSIVE FillFrom(_, _)
FillFrom(s, carry) ==
    IF Len(s) = 0 THEN s
    ELSE IF Len(s) = 1 THEN << IF IsNaN(s[1]) THEN carry ELSE s[1] >>
    ELSE LET h     == Len(s) \div 2
             left  == FillFrom(SubSeq(s, 1, h), carry)
         IN  left \o FillFrom(SubSeq(s, h + 1, Len(s)), left[h])

\* (variant: method="bfill", a NaN entry takes the next observed entry)
FFillMutBack(s) ==
    [i \in 1..Len(s) |->
        IF ~IsNaN(s[i]) THEN s[i]
        ELSE s[CHOOSE j \in (i + 1)..Len(s) :
                 ~IsNaN(s[j]) /\ \A k \in (i + 1)..(j - 1) : IsNaN(s[k])]]

FFill(s) == FillFrom(s, NaN)

\* g.sort_values("date").set_index("date").asfreq("D").fillna(method="ffill")
Resample(obs) == [first |-> MinDate(obs), values |-> FFill(AsFreq(obs))]

\* if len(series) < 14
MinPoints == 14

\* base = series[-90:] if len(series) >= 90 else series
BaseWindow == 90

\* weights of the composite score, in hundredths
WWow == 45
WSlope == 35
WZ == 20

Frame(cols, rows) == [cols |-> cols, rows |-> rows]

\* pd.DataFrame()
EmptyFrame == Frame({}, <<>>)

MomentumCols == {"niche", "wow_pct", "slope7", "zscore90", "gt_score"}

\* One weighted component of the score: np.tanh(x / d) * w if not isnan(x) else 0
Term(x, d, w) == IF IsNaN(x) THEN 0 ELSE Tanh(Div(x, d)) * w

\* (variant: the weights of the defined components are renormalized)
ScoreMutRenorm(wow, m, z) ==
    LET wsum == (IF IsNaN(wow) THEN 0 ELSE WWow) + (IF IsNaN(m) THEN 0 ELSE WSlope)
                + (IF IsNaN(z) THEN 0 ELSE WZ)
    IN  Div(Term(wow, 1, WWow) + Term(m, 10, WSlope) + Term(z, 3, WZ), wsum)

\* np.nansum of the three components, in thousandths
Score(wow, m, z) ==
    LET terms == <<Term(wow, 1, WWow), Term(m, 10, WSlope), Term(z, 3, WZ)>>
    IN  Div(SumSeq([i \in 1..3 |-> IF IsNaN(terms[i]) THEN 0 ELSE terms[i]]), 100)

\* (cur7 - prev7)/prev7 if prev7 and not math.isclose(prev7, 0) else np.nan
Wow(cur7, prev7) ==
    IF prev7 # 0 THEN Div((cur7 - prev7) * SCALE, prev7) ELSE NaN

\* (cur7 - np.nanmean(base)) / (np.nanstd(base) if np.nanstd(base) > 0 else np.nan)
ZScore(cur7, base) ==
    IF Std(base) > 0 THEN Div((cur7 - Mean(base)) * SCALE, Std(base)) ELSE NaN

\* the record of a niche with too short a history (line 58)
InsufficientStat(niche) ==
    [niche |-> niche, wow_pct |-> NaN, slope7 |-> NaN, zscore90 |-> NaN,
     gt_score |-> NaN]

\* (variant: len(series) <= 14)
StatMutThreshold(niche, series) ==
    IF Len(series) <= MinPoints THEN InsufficientStat(niche)
    ELSE LET n     == Len(series)
             cur7  == Mean(SubSeq(series, n - 6, n))
             prev7 == Mean(SubSeq(series, n - 13, n - 7))
             wow   == Wow(cur7, prev7)
             m     == Slope7(SubSeq(series, n - 6, n))
             base  == IF n >= BaseWindow THEN LastK(series, BaseWindow) ELSE series
             z     == ZScore(cur7, base)
         IN  [niche |-> niche, wow_pct |-> wow, slope7 |-> m, zscore90 |-> z,
              gt_score |-> Score(wow, m, z)]

\* The record appended to stats for one niche (loop body, lines 56-71)
Stat(niche, series) ==
    IF Len(series) < MinPoints THEN InsufficientStat(niche)
    ELSE LET n     == Len(series)
             cur7  == Mean(SubSeq(series, n - 6, n))
             prev7 == Mean(SubSeq(series, n - 13, n - 7))
             wow   == Wow(cur7, prev7)
             m     == Slope7(SubSeq(series, n - 6, n))
             base  == IF n >= BaseWindow THEN LastK(series, BaseWindow) ELSE series
             z     == ZScore(cur7, base)
         IN  [niche |-> niche, wow_pct |-> wow, slope7 |-> m, zscore90 |-> z,
              gt_score |-> Score(wow, m, z)]

\* Permutations of 1..n
Perms(n) == { p \in [1..n -> 1..n] : \A i, j \in 1..n : i # j => p[i] # p[j] }

\* (variant: the frame is returned unsorted)
SortDescMutNone(rows, col) == { rows }

\* .sort_values(col, ascending=False): the default kind is quicksort, which is
\* not stable, so rows with equal keys may come out in any order; NaN keys
\* are placed last (NaN is below every modelled value).
SortDesc(rows, col) ==
    { [i \in 1..Len(rows) |-> rows[p[i]]] : p \in
        { q \in Perms(Len(rows)) :
            \A i \in 1..(Len(rows) - 1) : rows[q[i]][col] >= rows[q[i + 1]][col] } }

\* Niches with at least one row
NichesOf(rows) == { r.niche : r \in rows }

\* The stats list built by the groupby loop, in group (label) order
Stats(gt_df) ==
    LET ns == SortedNiches(NichesOf(gt_df))
    IN  [i \in 1..Len(ns) |-> Stat(ns[i], Resample(Obs(gt_df, ns[i])).values)]

\* compute_momentum(gt_df): the frames it may return
compute_momentum(gt_df) ==
    IF gt_df = {} THEN { Frame(MomentumCols, <<>>) }
    ELSE { Frame(MomentumCols, s) : s \in SortDesc(Stats(gt_df), "gt_score") }

----------------------------------------------------------------------------
(* normalize and fuse_scores: app.py                                       *)

\* Python min(x) / max(x) over a non-empty list
RECURSIVE MinOf(_)
MinOf(x) ==
    IF Len(x) = 1 THEN x[1]
    ELSE LET m == MinOf(Tail(x)) IN IF x[1] <= m THEN x[1] ELSE m

RECURSIVE MaxOf(_)
MaxOf(x) ==
    IF Len(x) = 1 THEN x[1]
    ELSE LET m == MaxOf(Tail(x)) IN IF x[1] >= m THEN x[1] ELSE m

\* (variant: a constant column is normalized to 1)
normalizeMutOne(x) ==
    IF Len(x) = 0 THEN x
    ELSE LET mn == MinOf(x)
             mx == MaxOf(x)
         IN  [i \in 1..Len(x) |->
                IF mx > mn THEN Div((x[i] - mn) * SCALE, mx - mn) ELSE SCALE]

\* normalize(x): raw values in, thousandths out
normalize(x) ==
    IF Len(x) = 0 THEN x
    ELSE LET mn == MinOf(x)
             mx == MaxOf(x)
         IN  [i \in 1..Len(x) |->
                IF mx > mn THEN Div((x[i] - mn) * SCALE, mx - mn) ELSE 0]

\* metrics_df.pivot_table(index="niche", columns="metric", values="value",
\*                        aggfunc="sum").fillna(0)
RECURSIVE SumRows(_)
SumRows(rows) ==
    IF rows = {} THEN 0
    ELSE LET r == CHOOSE x \in rows : TRUE IN r.value + SumRows(rows \ {r})

Pivot(metrics_df) ==
    LET cols == { r.metric : r \in metrics_df }
    IN  [index |-> SortedNiches(NichesOf(metrics_df)),
         cols  |-> cols,
         val   |-> [n \in NichesOf(metrics_df) |-> [c \in cols |->
                      SumRows({ r \in metrics_df : r.niche = n /\ r.metric = c })]]]

\* for col in piv.columns: piv[col] = normalize(piv[col].tolist())
Normalized(p) ==
    [index |-> p.index,
     cols  |-> p.cols,
     val   |-> [n \in DOMAIN p.val |-> [c \in p.cols |->
                  normalize([i \in 1..Len(p.index) |-> p.val[p.index[i]][c]])
                      [CHOOSE i \in 1..Len(p.index) : p.index[i] = n]]]]

Range(s) == { s[i] : i \in 1..Len(s) }

\* Index of base.join(piv, how="outer"): the union of the two indexes in label
\* order, except that the left index is kept as it is when the right one is
\* empty or equal to it
JoinIndex(left, right) ==
    IF right = <<>> \/ left = right THEN left
    ELSE IF left = <<>> THEN right
    ELSE SortedNiches(Range(left) \cup Range(right))

\* weights of the fused score, in hundredths
WGt == 60
WViews == 20
WPosts == 12
WArticles == 8
WStories == 5

\* frame.get(col, 0) on one row
Get(row, c) == IF c \in DOMAIN row THEN row[c] ELSE 0

\* (variant: stories_7d weighted like articles_7d)
FusedScoreMutWeights(row) ==
    WGt * row["gt_score"] + WViews * Get(row, "views_7d")
    + WPosts * Get(row, "posts_7d") + WArticles * Get(row, "articles_7d")
    + WArticles * Get(row, "stories_7d")

\* 0.6*gt_score + 0.20*views_7d + 0.12*posts_7d + 0.08*articles_7d + 0.05*stories_7d
\* (weights in hundredths times inputs in thousandths: fused_score is kept in
\* units of 1e-5, so that 1.05 is 105000)
FusedScore(row) ==
    WGt * row["gt_score"] + WViews * Get(row, "views_7d")
    + WPosts * Get(row, "posts_7d") + WArticles * Get(row, "articles_7d")
    + WStories * Get(row, "stories_7d")

\* .fillna(0)
FillNa0(v) == IF IsNaN(v) THEN 0 ELSE v

\* (variant: .dropna() in place of .fillna(0): a niche without a defined
\* gt_score loses its row)
JoinedMutDropNa(mom, p) ==
    LET base == [i \in 1..Len(mom.rows) |-> mom.rows[i].niche]
        gtOf(n) == IF n \in Range(base)
                   THEN (CHOOSE r \in Range(mom.rows) : r.niche = n).gt_score
                   ELSE NaN
        idx  == SelectSeq(JoinIndex(base, p.index), LAMBDA n : ~IsNaN(gtOf(n)))
    IN  [i \in 1..Len(idx) |->
            [c \in {"niche", "gt_score"} \cup p.cols |->
                IF c = "niche" THEN idx[i]
                ELSE IF c = "gt_score" THEN gtOf(idx[i])
                ELSE FillNa0(IF idx[i] \in DOMAIN p.val THEN p.val[idx[i]][c] ELSE NaN)]]

\* base.join(piv, how="outer").fillna(0), one row (a function of the columns)
\* per niche of the joined index
Joined(mom, p) ==
    LET base == [i \in 1..Len(mom.rows) |-> mom.rows[i].niche]
        idx  == JoinIndex(base, p.index)
        gtOf(n) == IF n \in Range(base)
                   THEN (CHOOSE r \in Range(mom.rows) : r.niche = n).gt_score
                   ELSE NaN
    IN  [i \in 1..Len(idx) |->
            [c \in {"niche", "gt_score"} \cup p.cols |->
                IF c = "niche" THEN idx[i]
                ELSE IF c = "gt_score" THEN FillNa0(gtOf(idx[i]))
                ELSE FillNa0(IF idx[i] \in DOMAIN p.val THEN p.val[idx[i]][c] ELSE NaN)]]

\* fused["fused_score"] = ...
WithScore(rows) ==
    [i \in 1..Len(rows) |->
        [c \in DOMAIN rows[i] \cup {"fused_score"} |->
            IF c = "fused_score" THEN FusedScore(rows[i]) ELSE rows[i][c]]]

\* fuse_scores(momentum, metrics_df): the frames it may return
fuse_scores(mom, metrics_df) ==
    LET p    == Normalized(Pivot(metrics_df))
        rows == WithScore(Joined(mom, p))
    IN  { Frame({"niche", "gt_score", "fused_score"} \cup p.cols, s) :
            s \in SortDesc(rows, "fused_score") }

----------------------------------------------------------------------------
(* The dashboard script: app.py, module level                              *)

\* load_points: WHERE niche = ANY(niches) AND date BETWEEN start AND end
\*              AND geo = geo AND timeframe = ANY([timeframe, "last_7d"])
load_points(q) ==
    { r \in trend_points :
        /\ r.niche \in q.niches
        /\ q.start <= r.date /\ r.date <= q.end
        /\ r.geo = q.geo
        /\ r.timeframe \in {q.timeframe, "last_7d"} }

\* lines 131-133
Load ==
    /\ pc = "load"
    /\ gt' = { r \in load_points(query) :
                 r.source = "google_trends" /\ r.metric = "interest" }
    /\ metrics' = { r \in load_points(query) : r.source # "google_trends" }
    /\ pc' = "momentum"
    /\ UNCHANGED <<query, run_alerts, resampled, momentum, piv, fused, slack, error>>
    /\ UNCHANGED storeVars

\* line 142: momentum = compute_momentum(gt) if not gt.empty else pd.DataFrame()
Momentum ==
    /\ pc = "momentum"
    /\ momentum' \in (IF gt # {} THEN compute_momentum(gt) ELSE {EmptyFrame})
    /\ resampled' = [n \in NichesOf(gt) |-> Resample(Obs(gt, n))]
    /\ pc' = "fuse"
    /\ UNCHANGED <<query, run_alerts, gt, metrics, piv, fused, slack, error>>
    /\ UNCHANGED storeVars

\* line 146: fused = fuse_scores(momentum, metrics) if not momentum.empty
\*                   else pd.DataFrame()
Fuse ==
    /\ pc = "fuse"
    /\ IF momentum.rows # <<>>
       THEN /\ fused' \in fuse_scores(momentum, metrics)
            /\ piv' = Pivot(metrics)
       ELSE /\ fused' = EmptyFrame
            /\ piv' = <<>>
    /\ pc' = "show"
    /\ UNCHANGED <<query, run_alerts, gt, metrics, resampled, momentum, slack, error>>
    /\ UNCHANGED storeVars

\* line 147: fused[["niche","fused_score","gt_score","views_7d","posts_7d",
\*                  "articles_7d","stories_7d"]]
ShownCols ==
    {"niche", "fused_score", "gt_score", "views_7d", "posts_7d", "articles_7d",
     "stories_7d"}

\* Selecting a list of columns raises KeyError when one of them is missing;
\* the exception ends the script.
ShowError ==
    /\ pc = "show"
    /\ ~(ShownCols \subseteq fused.cols)
    /\ error' = "KeyError"
    /\ pc' = "error"
    /\ UNCHANGED <<query, run_alerts, gt, metrics, resampled, momentum, piv, fused, slack>>
    /\ UNCHANGED storeVars

Show ==
    /\ pc = "show"
    /\ ShownCols \subseteq fused.cols
    /\ pc' = "alerts"
    /\ UNCHANGED <<query, run_alerts, gt, metrics, resampled, momentum, piv, fused,
                   slack, error>>
    /\ UNCHANGED storeVars

\* s.head(k)
HeadK(s, k) == IF Len(s) <= k THEN s ELSE SubSeq(s, 1, k)

\* zscore90 >= 2.0
BreakoutZ == 2000

TopN == 3

\* (variant: zscore90 > 2.0)
breakersMutStrict(mom) ==
    SelectSeq([i \in 1..Len(mom.rows) |-> mom.rows[i]],
              LAMBDA r : ~IsNaN(r.zscore90) /\ r.zscore90 > BreakoutZ)

\* momentum[momentum["zscore90"] >= 2.0]["niche"].tolist(); a comparison with
\* NaN is False
breakers(mom) ==
    SelectSeq([i \in 1..Len(mom.rows) |-> mom.rows[i]],
              LAMBDA r : ~IsNaN(r.zscore90) /\ r.zscore90 >= BreakoutZ)

NamesOf(rows) == [i \in 1..Len(rows) |-> rows[i].niche]

\* lines 159-168; send_slack(msg) is recorded as one entry of slack (the
\* timestamp of the message is left out)
AlertsGuard(b, t) == b # <<>> \/ t # <<>>

Alerts ==
    /\ pc = "alerts"
    /\ IF run_alerts /\ fused.rows # <<>>
       THEN LET b == NamesOf(breakers(momentum))
                t == NamesOf(HeadK(fused.rows, TopN))
            IN  IF AlertsGuard(b, t)
                THEN slack' = Append(slack, [top3 |-> t,
                                  breakouts |-> IF b = <<>> THEN <<"-">> ELSE b])
                ELSE slack' = slack
       ELSE slack' = slack
    /\ pc' = "done"
    /\ UNCHANGED <<query, run_alerts, gt, metrics, resampled, momentum, piv, fused, error>>
    /\ UNCHANGED storeVars

----------------------------------------------------------------------------
(* Stored points the dashboard may find                                    *)

\* google_trends rows of one niche for a set of (date, value) observations
GtRows(n, obs) ==
    { Row("google_trends", n, o[1], "interest", o[2], "", "now 7-d") : o \in obs }

\* Interest histories, written sparsely: the resampler fills the days between
GtShapes ==
    { {},
      { <<0, 10>>, <<2, 30>> },
      { <<0, 1>>, <<12, 1>> },
      { <<0, 1>>, <<13, 1>> },
      { <<0, 0>>, <<13, 0>> },
      { <<0, 0>>, <<7, 1>>, <<13, 1>> },
      { <<0, 1>>, <<7, 0>>, <<13, 0>> },
      { <<0, 0>>, <<28, 1>>, <<34, 1>> },
      { <<0, 0>>, <<27, 1>>, <<33, 1>> },
      { <<0, 0>>, <<99, 1>> },
      { <<i, i>> : i \in 0..19 } }

LastDay == 99

SourceOf(m) ==
    CASE m = "views_7d" -> "youtube"
      [] m = "posts_7d" -> "reddit"
      [] m = "articles_7d" -> "newsapi"
      [] m = "stories_7d" -> "hn"

MetricNames == {"views_7d", "posts_7d", "articles_7d", "stories_7d"}

\* cross-source rows from <<metric, niche, date, value>> tuples
MRows(T) == { Row(SourceOf(t[1]), t[2], t[3], t[1], t[4], "", "last_7d") : t \in T }

MetricChoices ==
    { {},
      MRows({ <<"views_7d", "A", 99, 5>>, <<"views_7d", "B", 99, 1>>,
              <<"posts_7d", "A", 99, 2>>, <<"posts_7d", "B", 99, 4>>,
              <<"articles_7d", "A", 99, 3>>, <<"articles_7d", "B", 99, 3>>,
              <<"stories_7d", "A", 99, 0>>, <<"stories_7d", "B", 99, 7>> }),
      MRows({ <<"views_7d", "A", 99, 5>>, <<"views_7d", "C", 99, 1>> }),
      MRows({ <<"views_7d", "A", 98, 2>>, <<"views_7d", "A", 99, 3>>,
              <<"views_7d", "C", 99, 4>>, <<"posts_7d", "A", 99, 1>>,
              <<"articles_7d", "C", 99, 6>>, <<"stories_7d", "A", 99, 2>> }),
      MRows({ <<m, n, 99, 4>> : m \in MetricNames, n \in {"A", "B", "C"} }) }

Queries ==
    { [niches |-> Niches, start |-> 0, end |-> LastDay, geo |-> "", timeframe |-> "now 7-d"],
      [niches |-> Niches, start |-> 0, end |-> LastDay, geo |-> "US", timeframe |-> "now 7-d"],
      [niches |-> {"A", "C"}, start |-> 0, end |-> LastDay, geo |-> "", timeframe |-> "now 7-d"] }

StoreAtRest ==
    /\ applied = [k \in WriterKeys |-> <<>>]
    /\ pending = [w \in Writers |-> <<>>]
    /\ calls = 0
    /\ FetchIdle

Init ==
    /\ \E sa \in GtShapes, sb \in GtShapes, mc \in MetricChoices :
          trend_points = GtRows("A", sa) \cup GtRows("B", sb) \cup mc
    /\ StoreAtRest
    /\ pc = "load"
    /\ query \in Queries
    /\ run_alerts \in BOOLEAN
    /\ gt = {} /\ metrics = {}
    /\ resampled = <<>> /\ momentum = EmptyFrame /\ piv = <<>> /\ fused = EmptyFrame
    /\ slack = <<>> /\ error = "none"

Next == Load \/ Momentum \/ Fuse \/ Show \/ ShowError \/ Alerts

Spec == Init /\ [][Next]_vars

----------------------------------------------------------------------------
(* compute_momentum applied to drawn interest rows                         *)

CandDays == {0, 1, 2, 12, 13}

ObsValues == {0, 10, 30}

\* every way to observe some of the candidate days
WideObs ==
    UNION { { { <<d, f[d]>> : d \in D } : f \in [D -> ObsValues] } : D \in SUBSET CandDays }

DefaultQuery == 
    [niches |-> Niches, start |-> 0, end |-> LastDay, geo |-> "", timeframe |-> "now 7-d"]

InitMomentum ==
    /\ \E oa \in WideObs, ob \in GtShapes :
          gt = GtRows("A", oa) \cup GtRows("B", ob)
    /\ trend_points = gt
    /\ StoreAtRest
    /\ pc = "momentum"
    /\ query = DefaultQuery
    /\ run_alerts = FALSE
    /\ metrics = {}
    /\ resampled = <<>> /\ momentum = EmptyFrame /\ piv = <<>> /\ fused = EmptyFrame
    /\ slack = <<>> /\ error = "none"

NextMomentum == Momentum

SpecMomentum == InitMomentum /\ [][NextMomentum]_vars

----------------------------------------------------------------------------
(* fuse_scores and the alert block applied to drawn momentum records       *)

\* (wow_pct, slope7, zscore90) of a niche with enough history
MomChoices ==
    { <<NaN, 0, 2000>>, <<NaN, 0, 1999>>, <<0, 0, NaN>>, <<-1000, 0, -1000>>,
      <<5000, 40000, 9000>> }

MomRecords(n) ==
    { InsufficientStat(n) } \cup
    { [niche |-> n, wow_pct |-> c[1], slope7 |-> c[2], zscore90 |-> c[3],
       gt_score |-> Score(c[1], c[2], c[3])] : c \in MomChoices }

\* the stats lists of the niches A and B, each present or not
DrawnStats ==
    { <<>> } \cup { <<a>> : a \in MomRecords("A") } \cup { <<b>> : b \in MomRecords("B") }
    \cup { <<a, b>> : a \in MomRecords("A"), b \in MomRecords("B") }

\* views_7d counts of A, B, C: each absent, 1 or 4
ViewChoices ==
    { { <<"views_7d", n, 99, f[n]>> : n \in D } :
        f \in [Niches -> {1, 4}], D \in SUBSET Niches }

\* the other three metrics: none, the same count everywhere, or A ahead
RestChoices ==
    { {},
      { <<m, n, 99, 4>> : m \in MetricNames \ {"views_7d"}, n \in Niches },
      { <<m, n, 99, IF n = "A" THEN 4 ELSE 1>> :
            m \in MetricNames \ {"views_7d"}, n \in {"A", "C"} } }

DrawnMetrics ==
    { MRows(v \cup r) : v \in ViewChoices, r \in RestChoices } \cup MetricChoices

InitFuse ==
    /\ \E st \in DrawnStats : momentum \in
          { Frame(MomentumCols, rows) : rows \in SortDesc(st, "gt_score") }
    /\ metrics \in DrawnMetrics
    /\ trend_points = metrics
    /\ StoreAtRest
    /\ pc = "fuse"
    /\ query = DefaultQuery
    /\ run_alerts \in BOOLEAN
    /\ gt = {}
    /\ resampled = <<>> /\ piv = <<>> /\ fused = EmptyFrame
    /\ slack = <<>> /\ error = "none"

NextFuse == Fuse \/ Show \/ ShowError \/ Alerts

SpecFuse == InitFuse /\ [][NextFuse]_vars

----------------------------------------------------------------------------
(* fetch_google_trends: ingest.py                                          *)

MaxRetries == 6     \* rate-limit/response errors the service returns per chunk

NICHES == <<"SaaS", "Patreon", "Substack", "Gumroad", "Membership",
            "Creator Economy", "No Code", "AI Tools", "Remote Work",
            "Online Learning", "Freelancing", "Online Communities">>

TIMEFRAME == "now 7-d"

DEFAULT_GEO == ""

ChunkSize == 5

MaxSleep == 60

\* chunks(lst, n): lst[i:i+n] for i = 0, n, 2n, ...
chunks(lst, n) ==
    [i \in 1..((Len(lst) + n - 1) \div n) |->
        SubSeq(lst, n * (i - 1) + 1, IF n * i < Len(lst) THEN n * i ELSE Len(lst))]

\* (variant: the wait doubles without the 60 second ceiling)
BackoffMutNoCap(a) == 2 ^ a

\* min(2**attempts, 60)
Backoff(a) == IF 2 ^ a < MaxSleep THEN 2 ^ a ELSE MaxSleep

\* pd.to_datetime(r["date"]).date(): the day of an hourly timestamp
IsoDate(ts) == ts \div 24

\* A non-empty interest_over_time() frame: hourly rows, two of them on the
\* same day, one with an undefined interest.
DfRows == << [date |-> 0,  value |-> 1],
             [date |-> 1,  value |-> 2],
             [date |-> 24, value |-> NaN] >>

\* The rows appended for one response: for each frame row, for each niche of
\* the group, in that order.
GroupRows(g, df) ==
    [k \in 1..(Len(df) * Len(g)) |->
        LET r == df[((k - 1) \div Len(g)) + 1]
            n == g[((k - 1) % Len(g)) + 1]
        IN  Row("google_trends", n, IsoDate(r.date), "interest",
                IF IsNaN(r.value) THEN 0 ELSE r.value, DEFAULT_GEO, TIMEFRAME)]

\* The record log_run inserts into collect_runs.
log_run(source, status, err) ==
    [source |-> source, niches |-> NICHES, timeframe |-> TIMEFRAME,
     geo |-> DEFAULT_GEO, status |-> status, error |-> err]

\* break: the while loop of the current group is left and the for loop moves
\* to the next group (attempts=0) or, after the last one, to upsert_points.
Break(how) ==
    /\ exits' = Append(exits, [group |-> group, how |-> how, waits |-> waits])
    /\ resp' = how
    /\ IF group < Len(chunks(NICHES, ChunkSize))
       THEN /\ group' = group + 1
            /\ attempts' = 0
            /\ waits' = <<>>
            /\ fpc' = "request"
       ELSE /\ fpc' = "upsert"
            /\ UNCHANGED <<group, attempts, waits>>

\* The request answers with a non-empty frame: its rows are collected.
RespondData ==
    /\ fpc = "request"
    /\ rows_gt' = rows_gt \o GroupRows(chunks(NICHES, ChunkSize)[group], DfRows)
    /\ Break("data")
    /\ UNCHANGED <<trend_points, applied, pending, calls, collect_runs>>
    /\ UNCHANGED runVars

\* The request answers with an empty frame: if df.empty: break
RespondEmpty ==
    /\ fpc = "request"
    /\ Break("empty")
    /\ UNCHANGED <<trend_points, applied, pending, calls, rows_gt, collect_runs>>
    /\ UNCHANGED runVars

\* TooManyRequestsError / ResponseError: count, sleep, try the group again.
RateLimited ==
    /\ fpc = "request"
    /\ attempts < MaxRetries
    /\ attempts' = attempts + 1
    /\ waits' = Append(waits, Backoff(attempts + 1))
    /\ resp' = "rate_limit"
    /\ UNCHANGED <<fpc, group, rows_gt, exits, collect_runs>>
    /\ UNCHANGED <<trend_points, applied, pending, calls>>
    /\ UNCHANGED runVars

\* Any other Exception: log_run("google_trends","error",str(e)); break
RespondError ==
    /\ fpc = "request"
    /\ collect_runs' = Append(collect_runs, log_run("google_trends", "error", "e"))
    /\ Break("error")
    /\ UNCHANGED <<trend_points, applied, pending, calls, rows_gt>>
    /\ UNCHANGED runVars

\* upsert_points(rows): the collected rows are handed to executemany.
FetchUpsert ==
    /\ fpc = "upsert"
    /\ pending' = [pending EXCEPT !["w1"] = rows_gt]
    /\ fpc' = "log"
    /\ UNCHANGED <<trend_points, applied, calls>>
    /\ UNCHANGED <<group, attempts, rows_gt, waits, resp, exits, collect_runs>>
    /\ UNCHANGED runVars

\* log_run("google_trends"), once upsert_points has returned.
FetchLog ==
    /\ fpc = "log"
    /\ pending["w1"] = <<>>
    /\ collect_runs' = Append(collect_runs, log_run("google_trends", "ok", ""))
    /\ fpc' = "done"
    /\ UNCHANGED <<trend_points, applied, pending, calls>>
    /\ UNCHANGED <<group, attempts, rows_gt, waits, resp, exits>>
    /\ UNCHANGED runVars

FetchKeys ==
    { KeyOf(Row("google_trends", NICHES[i], d, "interest", 0, DEFAULT_GEO, TIMEFRAME)) :
        i \in 1..Len(NICHES), d \in {IsoDate(DfRows[j].date) : j \in 1..Len(DfRows)} }

\* fetch_google_trends(NICHES, TIMEFRAME, DEFAULT_GEO) has been called on an
\* empty table and stands at its first request.
InitFetch ==
    /\ trend_points = {}
    /\ applied = [k \in FetchKeys |-> <<>>]
    /\ pending = [w \in Writers |-> <<>>]
    /\ calls = 0
    /\ IdleRun
    /\ fpc = "request"
    /\ group = 1 /\ attempts = 0
    /\ rows_gt = <<>> /\ waits = <<>> /\ resp = "none" /\ exits = <<>>
    /\ collect_runs = <<>>

NextFetch ==
    \/ RespondData
    \/ RespondEmpty
    \/ RateLimited
    \/ RespondError
    \/ FetchUpsert
    \/ UpsertStep("w1")
    \/ FetchLog

\* The interpreter always takes the next step; the service answers at most
\* MaxRetries requests of a group with a rate-limit/response error.
SpecFetch == InitFetch /\ [][NextFetch]_vars /\ WF_vars(NextFetch)

----------------------------------------------------------------------------
(* Claims                                                                  *)

\* C2: a run whose input point set is entirely empty completes without an
\* error and produces an empty momentum ranking and an empty fused ranking.
C2_EmptyInputCompletes ==
    (pc \in {"done", "error"} /\ gt = {} /\ metrics = {})
        => (pc = "done" /\ error = "none" /\ momentum.rows = <<>> /\ fused.rows = <<>>)

\* C3: for every niche of the outer join of the momentum records and the
\* normalized cross-source metrics there is exactly one fused row, and its
\* fused_score is 0.6*gt_score + 0.20*views_7d + 0.12*posts_7d +
\* 0.08*articles_7d + 0.05*stories_7d with 0 for whatever is absent for that
\* niche; five inputs equal to 1 give exactly 1.05.
C3_FusedScoreFormula ==
    (pc \in {"show", "alerts", "done", "error"} /\ momentum.rows # <<>>) =>
        LET np   == Normalized(Pivot(metrics))
            inM  == { momentum.rows[i].niche : i \in 1..Len(momentum.rows) }
            inP  == { np.index[i] : i \in 1..Len(np.index) }
            g(n) == IF n \in inM
                    THEN LET v == (CHOOSE r \in Range(momentum.rows) : r.niche = n).gt_score
                         IN  IF IsNaN(v) THEN 0 ELSE v
                    ELSE 0
            x(n, c) == IF n \in inP /\ c \in np.cols THEN np.val[n][c] ELSE 0
        IN  /\ Len(fused.rows) = Cardinality(inM \cup inP)
            /\ \A n \in inM \cup inP :
                 \E i \in 1..Len(fused.rows) :
                    /\ fused.rows[i]["niche"] = n
                    /\ fused.rows[i]["gt_score"] = g(n)
                    /\ fused.rows[i]["fused_score"] =
                          60 * g(n) + 20 * x(n, "views_7d") + 12 * x(n, "posts_7d")
                          + 8 * x(n, "articles_7d") + 5 * x(n, "stories_7d")
                    /\ (g(n) = 1000 /\ \A c \in MetricNames : x(n, c) = 1000)
                          => fused.rows[i]["fused_score"] = 105000

\* C3 witness: fuse_scores has run; one niche has all five inputs equal to 1
\* and the score 1.05, another niche is absent from the momentum records.
C3_Witness ==
    /\ pc = "show"
    /\ \E i \in 1..Len(fused.rows) :
          /\ fused.rows[i]["gt_score"] = 1000
          /\ \A c \in MetricNames : c \in fused.cols /\ fused.rows[i][c] = 1000
          /\ fused.rows[i]["fused_score"] = 105000
    /\ \E i \in 1..Len(fused.rows) :
          \A j \in 1..Len(momentum.rows) : momentum.rows[j].niche # fused.rows[i]["niche"]

\* C4: in a run in which the alert check was requested, exactly one alert is
\* sent if the breakout set or the top-3 set is non-empty and none if both are
\* empty.
C4_OneAlertIffSetsNonEmpty ==
    (pc \in {"done", "error"} /\ run_alerts) =>
        Len(slack) = (IF breakers(momentum) # <<>> \/ HeadK(fused.rows, 3) # <<>>
                      THEN 1 ELSE 0)

\* C5: after compute_momentum every niche of the batch has one record; with
\* fewer than 14 daily points all four fields are undefined, with 14 or more
\* gt_score is defined; the record of a niche is the one computed from that
\* niche's rows alone.
C5_InsufficientHistory ==
    (pc = "fuse" /\ gt # {}) =>
        /\ Len(momentum.rows) = Cardinality(NichesOf(gt))
        /\ \A n \in NichesOf(gt) :
             LET own  == { r \in gt : r.niche = n }
                 days == { r.date : r \in own }
                 span == (CHOOSE d \in days : \A e \in days : d >= e)
                         - (CHOOSE d \in days : \A e \in days : d <= e) + 1
             IN  \E i \in 1..Len(momentum.rows) :
                    LET rec == momentum.rows[i]
                    IN  /\ rec.niche = n
                        /\ span < 14 =>
                              /\ IsNaN(rec.wow_pct) /\ IsNaN(rec.slope7)
                              /\ IsNaN(rec.zscore90) /\ IsNaN(rec.gt_score)
                        /\ span >= 14 => ~IsNaN(rec.gt_score)
                        /\ \A f \in compute_momentum(own) : f.rows = <<rec>>

\* C5 witness: a batch in which A has 13 daily points and undefined fields
\* and B has at least 14 and a defined score.
C5_Witness ==
    /\ pc = "fuse"
    /\ NichesOf(gt) = {"A", "B"}
    /\ Len(resampled["A"].values) = 13
    /\ Len(resampled["B"].values) >= 14
    /\ \E i, j \in 1..Len(momentum.rows) :
          /\ momentum.rows[i].niche = "A" /\ IsNaN(momentum.rows[i].gt_score)
          /\ momentum.rows[j].niche = "B" /\ ~IsNaN(momentum.rows[j].gt_score)

\* C6: the resampled series of a niche has exactly one entry for every day
\* from its first to its last observed date and none outside; an observed day
\* keeps its value and an unobserved day takes the value of the most recent
\* earlier observed day; [(d0,10),(d2,30)] gives d1 = 10.
C6_ResampleForwardFill ==
    (pc = "fuse") =>
        /\ DOMAIN resampled = NichesOf(gt)
        /\ \A n \in NichesOf(gt) :
             LET obs  == { <<r.date, r.value>> : r \in { x \in gt : x.niche = n } }
                 days == { o[1] : o \in obs }
                 lo   == CHOOSE d \in days : \A e \in days : d <= e
                 hi   == CHOOSE d \in days : \A e \in days : d >= e
                 R    == resampled[n]
             IN  /\ R.first = lo
                 /\ Len(R.values) = hi - lo + 1
                 /\ \A d \in lo..hi :
                      LET prior == CHOOSE e \in days :
                                      e <= d /\ \A k \in days : k <= d => k <= e
                      IN  \E o \in obs : o[1] = prior /\ R.values[d - lo + 1] = o[2]
                 /\ obs = { <<0, 10>>, <<2, 30>> } => R.values[2] = 10

\* C6 witness: a niche observed as [(0,10),(2,30)] was resampled to 10,10,30.
C6_Witness ==
    /\ pc = "fuse"
    /\ "A" \in NichesOf(gt)
    /\ { <<r.date, r.value>> : r \in { x \in gt : x.niche = "A" } }
          = { <<0, 10>>, <<2, 30>> }
    /\ resampled["A"].values = <<10, 10, 30>>

C8_MinMaxNormalization ==
    (pc \in {"show", "alerts", "done", "error"} /\ momentum.rows # <<>>) =>
        /\ Normalized(piv).index = piv.index
        /\ \A c \in piv.cols :
             LET col == [i \in 1..Len(piv.index) |-> piv.val[piv.index[i]][c]]
                 S   == { col[i] : i \in 1..Len(col) }
                 mn  == CHOOSE a \in S : \A b \in S : a <= b
                 mx  == CHOOSE a \in S : \A b \in S : a >= b
             IN  /\ Len(normalize(col)) = Len(col)
                 /\ \A i \in 1..Len(col) :
                      LET n == piv.index[i]
                          y == (CHOOSE r \in Range(fused.rows) : r["niche"] = n)[c]
                      IN  /\ y = normalize(col)[i]
                          /\ mx > mn =>
                                /\ y * (mx - mn) <= (col[i] - mn) * 1000
                                /\ (y + 1) * (mx - mn) > (col[i] - mn) * 1000
                                /\ 0 <= y /\ y <= 1000
                                /\ col[i] = mx => y = 1000
                                /\ col[i] = mn => y = 0
                          /\ mx = mn => y = 0

\* C8 witness: one column with three distinct counts (normalized to 1, 0 and
\* something strictly between) next to a column whose counts are all equal.
C8_Witness ==
    /\ pc = "show"
    /\ momentum.rows # <<>>
    /\ \E c \in piv.cols :
          /\ \E n \in DOMAIN piv.val : \A k \in DOMAIN piv.val : piv.val[k][c] = piv.val[n][c]
          /\ Len(piv.index) >= 2
    /\ \E c \in piv.cols : \E i, j, k \in 1..Len(fused.rows) :
          /\ fused.rows[i][c] = 1000 /\ fused.rows[j][c] = 0
          /\ fused.rows[k][c] > 0 /\ fused.rows[k][c] < 1000

\* C9: for a niche with at least 14 daily points, wow_pct is undefined when
\* the mean of the preceding 7 values is 0 and zscore90 is undefined when the
\* baseline (last 90 values, or all if fewer) is constant; gt_score stays
\* defined and is the sum of tanh(wow)*0.45, tanh(slope/10)*0.35 and
\* tanh(z/3)*0.20 with 0 in place of an undefined component.
C9_DegenerateStatistics ==
    (pc = "fuse") =>
        \A i \in 1..Len(momentum.rows) :
            LET rec  == momentum.rows[i]
                ser  == resampled[rec.niche].values
                n    == Len(ser)
                base == IF n >= 90 THEN [k \in 1..90 |-> ser[n - 90 + k]] ELSE ser
                tw   == IF IsNaN(rec.wow_pct) THEN 0 ELSE 45 * Tanh(rec.wow_pct)
                tm   == 35 * Tanh(Div(rec.slope7, 10))
                tz   == IF IsNaN(rec.zscore90) THEN 0 ELSE 20 * Tanh(Div(rec.zscore90, 3))
            IN  n >= 14 =>
                  /\ (\A k \in (n - 13)..(n - 7) : ser[k] = 0) => IsNaN(rec.wow_pct)
                  /\ (\A k \in 1..Len(base) : base[k] = base[1]) => IsNaN(rec.zscore90)
                  /\ ~IsNaN(rec.slope7)
                  /\ ~IsNaN(rec.gt_score)
                  /\ rec.gt_score = Div(tw + tm + tz, 100)

\* C9 witness: one niche has prev7 = 0, an undefined wow_pct, a defined
\* zscore90 and a non-zero gt_score; another has a flat series, an undefined
\* zscore90 and a defined gt_score.
C9_Witness ==
    /\ pc = "fuse"
    /\ \E i, j \in 1..Len(momentum.rows) :
          /\ IsNaN(momentum.rows[i].wow_pct) /\ ~IsNaN(momentum.rows[i].zscore90)
          /\ ~IsNaN(momentum.rows[i].gt_score) /\ momentum.rows[i].gt_score # 0
          /\ ~IsNaN(momentum.rows[j].wow_pct) /\ IsNaN(momentum.rows[j].zscore90)
          /\ ~IsNaN(momentum.rows[j].gt_score)

\* C10: the breakouts named by the alert are exactly the niches of the
\* momentum records whose zscore90 is defined and at least 2.0 (2.0 in, 1.999
\* out, undefined out), each decided by its own zscore90; without any, the
\* alert carries the placeholder.
C10_BreakoutSet ==
    (pc = "done" /\ Len(slack) = 1) =>
        LET out == { r.niche : r \in { x \in Range(momentum.rows) :
                                         x.zscore90 # NaN /\ x.zscore90 >= 2000 } }
        IN  /\ out # {} => Range(slack[1].breakouts) = out
            /\ out = {} => slack[1].breakouts = <<"-">>
            /\ \A r \in Range(momentum.rows) :
                  /\ r.zscore90 = 2000 => r.niche \in Range(slack[1].breakouts)
                  /\ r.zscore90 = 1999 => r.niche \notin Range(slack[1].breakouts)
                  /\ r.zscore90 = NaN => r.niche \notin Range(slack[1].breakouts)

\* C10 witness: an alert was sent naming A (zscore90 = 2.0) as the only
\* breakout while B has zscore90 = 1.999.
C10_Witness ==
    /\ pc = "done"
    /\ Len(slack) = 1
    /\ slack[1].breakouts = <<"A">>
    /\ \E i, j \in 1..Len(momentum.rows) :
          /\ momentum.rows[i].niche = "A" /\ momentum.rows[i].zscore90 = 2000
          /\ momentum.rows[j].niche = "B" /\ momentum.rows[j].zscore90 = 1999

\* C12: no fused row has an undefined gt_score or fused_score; a niche whose
\* momentum gt_score is undefined, or that has no momentum record, has a fused
\* row with gt_score = 0 whose fused_score is the weighted sum of its
\* normalized cross-source metrics alone, and that row stands above every
\* row with a negative fused_score.
C12_UndefinedScoreCountsAsZero ==
    (pc \in {"show", "alerts", "done", "error"} /\ momentum.rows # <<>>) =>
        LET np    == Normalized(Pivot(metrics))
            inP   == { np.index[i] : i \in 1..Len(np.index) }
            undef == { r.niche : r \in { q \in Range(momentum.rows) : IsNaN(q.gt_score) } }
            away  == inP \ { r.niche : r \in Range(momentum.rows) }
            x(n, c) == IF n \in inP /\ c \in np.cols THEN np.val[n][c] ELSE 0
        IN  /\ \A i \in 1..Len(fused.rows) :
                  /\ ~IsNaN(fused.rows[i]["gt_score"])
                  /\ ~IsNaN(fused.rows[i]["fused_score"])
            /\ \A n \in undef \cup away :
                  \E i \in 1..Len(fused.rows) :
                     /\ fused.rows[i]["niche"] = n
                     /\ fused.rows[i]["gt_score"] = 0
                     /\ fused.rows[i]["fused_score"] =
                           20 * x(n, "views_7d") + 12 * x(n, "posts_7d")
                           + 8 * x(n, "articles_7d") + 5 * x(n, "stories_7d")
                     /\ \A j \in 1..Len(fused.rows) :
                           fused.rows[j]["fused_score"] < 0 => i < j

\* C12 witness: A has an undefined momentum gt_score and a positive fused
\* score from its metrics, B has a negative fused score, and A stands above B.
C12_Witness ==
    /\ pc = "show"
    /\ \E r \in Range(momentum.rows) : r.niche = "A" /\ IsNaN(r.gt_score)
    /\ \E i, j \in 1..Len(fused.rows) :
          /\ i < j
          /\ fused.rows[i]["niche"] = "A" /\ fused.rows[i]["gt_score"] = 0
          /\ fused.rows[i]["fused_score"] > 0
          /\ fused.rows[j]["niche"] = "B" /\ fused.rows[j]["fused_score"] < 0

====
